---- MODULE Spec2Model ----
(***************************************************************************)
(* State-machine model of the company-research agent.                      *)
(*                                                                         *)
(*   Part I   application.py: job submission, process_research, the        *)
(*            websocket endpoint, status and report retrieval.             *)
(*   Part II  nodes/briefing.py: Briefing.create_briefings and its         *)
(*            semaphore-gated fan-out.                                     *)
(*   Part III nodes/briefing.py: generate_category_briefing, ranking and   *)
(*            prompt assembly over one list of documents.                  *)
(*   Part IV  nodes/researchers/auditor.py: OnlineEcommerceAuditor.analyze *)
(*            and the way its exception reaches process_research.          *)
(*                                                                         *)
(* WebSocketManager, MongoDBService and Graph are collaborators whose      *)
(* source is not part of the modelled files; they are modelled from their  *)
(* documented contract (see the comments at each definition).              *)
(***************************************************************************)
EXTENDS Integers, Sequences, FiniteSets, TLC

\* ------------------------------------------------------------------ bounds

\* Job ids handed out by research() (uuid4: distinct by construction).
Jobs == {"j1", "j2"}
\* The job a behaviour of Spec submits; the other id is never handed out
\* there, so a lookup of it is a stray lookup.
Submitted == {"j1"}
\* Live websocket connections.
Observers == {"o1", "o2"}
\* Longest snapshot sequence graph.run yields in the model.
MaxSnapshots == 2

\* ------------------------------------------------------------------ values

None == "None"
Absent == "absent"
Terminal == {"completed", "failed"}

\* data.company of each request.
CompanyOf(j) == IF j = "j1" THEN "Acme" ELSE "Beta"

\* A result payload; NoResult stands for Python's None.
NoResult == [report |-> None, company |-> None]
MkResult(r, c) == [report |-> r, company |-> c]

\* A StatusEvent as send_status_update receives it.
MkEvent(s, m, e, r) == [status |-> s, message |-> m, error |-> e, result |-> r]
NoEvent == MkEvent("none", None, None, NoResult)

\* Python truthiness of a value read with dict.get: a missing key, None and
\* the empty string are falsy.
Truthy(v) == v \notin {Absent, None, ""}

VARIABLES
    mongodb,        \* whether MONGODB_URI configured a persistence adapter
    pc,             \* position of each job's process_research task
    acc,            \* process_research's local `state` accumulator
    nSnap,          \* snapshots consumed from graph.run so far
    exc,            \* message of the exception the handler caught, or None
    job_status,     \* the in-memory registry (a defaultdict)
    LATEST_REPORT,  \* the process-wide latest-report slot
    durableJobs,    \* job records of the persistence adapter
    durableReports, \* report bodies of the persistence adapter
    published,      \* last StatusEvent process_research published per job
    conns,          \* WebSocketManager's registration table
    opc,            \* position of each observer's websocket_endpoint
    ojob,           \* the job id each observer connected to
    ofirst,         \* first event delivered to the observer since it registered
    faulted,        \* observers on which a delivery has faulted (history)
    atConnect,      \* history: what was on record when the observer registered
    curated,        \* Part II: state['curated_<field>'] per category
    bpc,            \* Part II: position of create_briefings
    tpc,            \* Part II: position of each process_briefing task
    sem,            \* Part II: free permits of briefing_semaphore
    briefKey,       \* Part II: state['<category>_briefing']
    synth,          \* Part II: what synthesis yields per category (input)
    briefings,      \* Part II: the local `briefings` dict, by category
    stateBriefings, \* Part II: state['briefings']
    calls,          \* Part II: generate_category_briefing calls issued
    docs,           \* Part III: the documents of one category
    gpc,            \* Part III: position of generate_category_briefing
    sorted_items,   \* Part III: the ranked (url, doc) tuples
    doc_texts,      \* Part III: the entries put into the prompt
    gcontent,       \* Part III: the 'content' the call returned
    site_scrape,    \* Part IV: what state holds under 'site_scrape'
    has_ws,         \* Part IV: websocket_manager and job_id are both set
    queries,        \* Part IV: what generate_queries returned
    apc,            \* Part IV: position of analyze
    searches,       \* Part IV: the search_documents calls made (history)
    auditor_data,   \* Part IV: the local document map, by url
    state_auditor_data, \* Part IV: state['auditor_data']
    messages,       \* Part IV: state['messages'], the trace log
    aevents,        \* Part IV: the events analyze published, in order
    areturn,        \* Part IV: the dict analyze returned
    aexc            \* Part IV: the exception analyze re-raised

appVars == <<mongodb, pc, acc, nSnap, exc, job_status, LATEST_REPORT,
             durableJobs, durableReports, published, conns, opc, ojob,
             ofirst, faulted, atConnect>>
briefVars == <<curated, synth, bpc, tpc, sem, briefKey, briefings,
               stateBriefings,
               calls>>
genVars == <<docs, gpc, sorted_items, doc_texts, gcontent>>
audVars == <<site_scrape, has_ws, queries, apc, searches, auditor_data,
             state_auditor_data, messages, aevents, areturn, aexc>>
nodeVars == <<genVars, audVars>>
vars == <<appVars, briefVars, nodeVars>>

\* ------------------------------------------------------- Part I: registry

\* The default factory of job_status.
DefaultJob == [present |-> FALSE, status |-> "pending", result |-> NoResult,
               error |-> None, company |-> None, report |-> None]

\* `job_id in job_status`: a membership test never creates an entry.
InJobStatus(j) == job_status[j].present

\* `job_status[job_id]`: indexing the defaultdict puts the default record
\* under a key that has none.
Indexed(js, j) == [js EXCEPT ![j].present = TRUE]

\* A lookup that indexes without testing membership first.
LookupRecordUnguarded(js, j) == Indexed(js, j)
\* `if job_id in job_status: status = job_status[job_id]`: the registry
\* after the lookup of websocket_endpoint and of get_research_report.
LookupRecord(js, j) == IF js[j].present THEN Indexed(js, j) ELSE js

NoDurable == [present |-> FALSE, status |-> None, error |-> None]

\* mongodb.create_job: a new record in "pending".
CreateJob(j) == [durableJobs EXCEPT ![j] =
                    [present |-> TRUE, status |-> "pending", error |-> None]]

\* mongodb.update_job: sets status and error of an existing record.
UpdateJob(dj, j, s, e) ==
    IF dj[j].present
    THEN [dj EXCEPT ![j] = [present |-> TRUE, status |-> s, error |-> e]]
    ELSE dj

\* --------------------------------------------------- Part I: broadcaster

\* The broadcaster as it must not be: the first fault ends the delivery loop.
SendStatusUpdateAborting(j, e, F) ==
    /\ conns' = [conns EXCEPT ![j] = @ \ F]
    /\ ofirst' = [o \in Observers |->
                    IF F = {} /\ o \in conns[j] /\ ofirst[o] = NoEvent
                    THEN e ELSE ofirst[o]]
    /\ faulted' = faulted \cup F

\* manager.send_status_update: the event goes to every observer registered
\* under the job id; delivery to the observers in F faults, they are removed
\* and the fault stays inside the broadcaster.
SendStatusUpdate(j, e, F) ==
    /\ conns' = [conns EXCEPT ![j] = @ \ F]
    /\ ofirst' = [o \in Observers |->
                    IF o \in conns[j] \ F /\ ofirst[o] = NoEvent
                    THEN e ELSE ofirst[o]]
    /\ faulted' = faulted \cup F

\* manager.disconnect as it must not be: the job's whole list is dropped.
DisconnectDropsJob(o, j) == [conns EXCEPT ![j] = {}]

\* manager.connect / manager.disconnect.
Connect(o, j) == [conns EXCEPT ![j] = @ \cup {o}]
Disconnect(o, j) == [conns EXCEPT ![j] = @ \ {o}]

\* ------------------------------------------- Part I: process_research

\* The keys of the accumulated state that process_research reads.
StateKeys == {"report", "editor", "error"}
\* What a snapshot can hold for a key: an empty value or a populated one.  The
\* "editor" entry stands for state['editor']['report'].
KeyValues(k) == CASE k = "report" -> {"", "report-text"}
                  [] k = "editor" -> {"", "editor-text"}
                  [] k = "error" -> {"", "stage-error"}
EmptyState == [k \in StateKeys |-> Absent]

\* `state = s` in place of state.update(s): the snapshot replaces the state.
UpdateReplacing(state, k, v) == [EmptyState EXCEPT ![k] = v]

\* state.update(s): every key of the snapshot replaces the accumulated one.
Update(state, k, v) == [state EXCEPT ![k] = v]

\* state.get('report') or (state.get('editor') or {}).get('report')
ReportContent(state) ==
    IF Truthy(state["report"]) THEN state["report"] ELSE state["editor"]

\* The error text of the no-report branch.
ErrorMessage(state) ==
    IF Truthy(state["error"]) THEN "Error: stage-error" ELSE "No report found"

ProcessingEvent == MkEvent("processing", "Starting research", None, NoResult)
CompletedEvent(j, r) ==
    MkEvent("completed", "Research completed successfully", None,
            MkResult(r, CompanyOf(j)))
NoReportEvent(state) ==
    MkEvent("failed", "Research completed but no report was generated",
            ErrorMessage(state), NoResult)
\* A handler that reports a fixed text instead of str(e).
HandlerEventGeneric(msg) ==
    MkEvent("failed", "Research failed", "Research failed", NoResult)
\* The event of the top-level handler: error=str(e).
HandlerEvent(msg) == MkEvent("failed", "Research failed", msg, NoResult)

\* Where the task goes once the handler has broadcast the failure.
AfterHandlerBroadcast == IF mongodb THEN "handler_db" ELSE "done"

\* `except Exception as e:` the failure is broadcast before anything else.
\* No suspension point lies between the raise and the broadcast, so the
\* raising step and the handler's broadcast are one step of the task.
Handler(j, msg, F) ==
    /\ SendStatusUpdate(j, HandlerEvent(msg), F)
    /\ published' = [published EXCEPT ![j] = HandlerEvent(msg)]
    /\ exc' = [exc EXCEPT ![j] = msg]
    /\ pc' = [pc EXCEPT ![j] = AfterHandlerBroadcast]

\* research(): a fresh job id, the task is spawned, the id is returned.
Research(j) ==
    /\ pc[j] = "unsubmitted"
    /\ pc' = [pc EXCEPT ![j] = "spawned"]
    /\ UNCHANGED <<briefVars, nodeVars, mongodb, acc, nSnap, exc, job_status,
                   LATEST_REPORT,
                   durableJobs, durableReports, published, conns, opc, ojob,
                   ofirst, faulted, atConnect>>

\* The task's first run: mongodb.create_job, then the one-second sleep.
PR_Start(j) ==
    /\ pc[j] = "spawned"
    /\ \/ /\ durableJobs' = IF mongodb THEN CreateJob(j) ELSE durableJobs
          /\ pc' = [pc EXCEPT ![j] = "sleeping"]
          /\ UNCHANGED <<exc, published, conns, ofirst, faulted>>
       \/ /\ mongodb
          /\ \E F \in SUBSET conns[j] : Handler(j, "create_job failed", F)
          /\ UNCHANGED durableJobs
    /\ UNCHANGED <<briefVars, nodeVars, mongodb, acc, nSnap, job_status,
                   LATEST_REPORT,
                   durableReports, opc, ojob, atConnect>>

\* The "processing" broadcast after the sleep.
PR_Processing(j) ==
    /\ pc[j] = "sleeping"
    /\ \E F \in SUBSET conns[j] : SendStatusUpdate(j, ProcessingEvent, F)
    /\ published' = [published EXCEPT ![j] = ProcessingEvent]
    /\ pc' = [pc EXCEPT ![j] = "graph"]
    /\ UNCHANGED <<briefVars, nodeVars, mongodb, acc, nSnap, exc, job_status,
                   LATEST_REPORT,
                   durableJobs, durableReports, opc, ojob, atConnect>>

\* Graph(...) is constructed and `state = {}`; construction may raise.
PR_Graph(j) ==
    /\ pc[j] = "graph"
    /\ \/ /\ pc' = [pc EXCEPT ![j] = "running"]
          /\ acc' = [acc EXCEPT ![j] = EmptyState]
          /\ UNCHANGED <<exc, published, conns, ofirst, faulted>>
       \/ /\ \E F \in SUBSET conns[j] : Handler(j, "graph failed", F)
          /\ UNCHANGED acc
    /\ UNCHANGED <<briefVars, nodeVars, mongodb, nSnap, job_status,
                   LATEST_REPORT,
                   durableJobs,
                   durableReports, opc, ojob, atConnect>>

\* One iteration of `async for s in graph.run(...)`: a snapshot is folded
\* into the accumulator, or the stage behind it raises.
PR_Snapshot(j) ==
    /\ pc[j] = "running"
    /\ \/ /\ nSnap[j] < MaxSnapshots
          /\ \E k \in StateKeys : \E v \in KeyValues(k) :
                acc' = [acc EXCEPT ![j] = Update(@, k, v)]
          /\ nSnap' = [nSnap EXCEPT ![j] = @ + 1]
          /\ UNCHANGED <<pc, exc, published, conns, ofirst, faulted>>
       \/ /\ \E F \in SUBSET conns[j] : Handler(j, "stage failed", F)
          /\ UNCHANGED <<acc, nSnap>>
    /\ UNCHANGED <<briefVars, nodeVars, mongodb, job_status, LATEST_REPORT,
                   durableJobs,
                   durableReports, opc, ojob, atConnect>>

\* A completed branch that broadcasts first and records afterwards: when the
\* event goes out the record is still what it was.
CompletedRecordLater(j, r) == job_status[j]

\* The in-memory record of a completed job.
CompletedRecord(j, r) ==
    [job_status[j] EXCEPT !.present = TRUE, !.status = "completed",
                          !.report = r, !.company = CompanyOf(j)]

\* The snapshot sequence has ended: the report is looked up and reported.
PR_Finish(j) ==
    /\ pc[j] = "running"
    /\ LET r == ReportContent(acc[j]) IN
       IF Truthy(r)
       THEN /\ job_status' = [job_status EXCEPT ![j] = CompletedRecord(j, r)]
            /\ LATEST_REPORT' = MkResult(r, CompanyOf(j))
            /\ \/ \* no adapter, or both writes succeed
                  /\ durableJobs' = IF mongodb
                                    THEN UpdateJob(durableJobs, j,
                                                   "completed", None)
                                    ELSE durableJobs
                  /\ durableReports' = IF mongodb
                                       THEN [durableReports EXCEPT ![j] = r]
                                       ELSE durableReports
                  /\ \E F \in SUBSET conns[j] :
                        SendStatusUpdate(j, CompletedEvent(j, r), F)
                  /\ published' = [published EXCEPT ![j] = CompletedEvent(j, r)]
                  /\ pc' = [pc EXCEPT ![j] = "done"]
                  /\ UNCHANGED exc
               \/ \* mongodb.update_job raises
                  /\ mongodb
                  /\ \E F \in SUBSET conns[j] :
                        Handler(j, "update_job failed", F)
                  /\ UNCHANGED <<durableJobs, durableReports>>
               \/ \* mongodb.store_report raises
                  /\ mongodb
                  /\ durableJobs' = UpdateJob(durableJobs, j, "completed", None)
                  /\ \E F \in SUBSET conns[j] :
                        Handler(j, "store_report failed", F)
                  /\ UNCHANGED durableReports
       ELSE /\ \E F \in SUBSET conns[j] :
                  SendStatusUpdate(j, NoReportEvent(acc[j]), F)
            /\ published' = [published EXCEPT ![j] = NoReportEvent(acc[j])]
            /\ pc' = [pc EXCEPT ![j] = "done"]
            /\ UNCHANGED <<exc, job_status, LATEST_REPORT, durableJobs,
                           durableReports>>
    /\ UNCHANGED <<briefVars, nodeVars, mongodb, acc, nSnap, opc, ojob,
                   atConnect>>

\* The handler's second statement: mongodb.update_job(status="failed"),
\* which may itself raise; nothing catches that.
PR_HandlerDb(j) ==
    /\ pc[j] = "handler_db"
    /\ \/ /\ durableJobs' = UpdateJob(durableJobs, j, "failed", exc[j])
          /\ pc' = [pc EXCEPT ![j] = "done"]
       \/ /\ pc' = [pc EXCEPT ![j] = "crashed"]
          /\ UNCHANGED durableJobs
    /\ UNCHANGED <<briefVars, nodeVars, mongodb, acc, nSnap, exc, job_status,
                   LATEST_REPORT,
                   durableReports, published, conns, opc, ojob, ofirst, faulted,
                   atConnect>>

\* ------------------------------------------- Part I: websocket_endpoint

\* A re-send that reads the default record instead of the job's.
ReplayEventDefault(j) ==
    MkEvent(DefaultJob.status, "Connected to status stream",
            DefaultJob.error, DefaultJob.result)
\* The status re-sent to a new connection when the registry knows the job.
ReplayEvent(j) ==
    MkEvent(job_status[j].status, "Connected to status stream",
            job_status[j].error, job_status[j].result)

\* What the job has on record, and what was last published for it, at the
\* moment an observer registers.
OnRecord(j) == [known |-> InJobStatus(j), status |-> job_status[j].status,
                published |-> published[j].status]
NothingOnRecord == [known |-> FALSE, status |-> "pending", published |-> "none"]

\* websocket.accept() and manager.connect(); a failing accept lands in the
\* outer handler, which disconnects.
WS_Connect(o, j) ==
    /\ opc[o] = "idle"
    /\ ojob' = [ojob EXCEPT ![o] = j]
    /\ \/ /\ conns' = Connect(o, j)
          /\ opc' = [opc EXCEPT ![o] = "registered"]
          /\ atConnect' = [atConnect EXCEPT ![o] = OnRecord(j)]
       \/ /\ conns' = Disconnect(o, j)
          /\ opc' = [opc EXCEPT ![o] = "closed"]
          /\ UNCHANGED atConnect
    /\ UNCHANGED <<briefVars, nodeVars, mongodb, pc, acc, nSnap, exc,
                   job_status,
                   LATEST_REPORT,
                   durableJobs, durableReports, published, ofirst, faulted>>

\* `if job_id in job_status:` re-send the recorded status.
WS_Replay(o) ==
    /\ opc[o] = "registered"
    /\ IF InJobStatus(ojob[o])
       THEN \E F \in SUBSET conns[ojob[o]] :
               SendStatusUpdate(ojob[o], ReplayEvent(ojob[o]), F)
       ELSE UNCHANGED <<conns, ofirst, faulted>>
    /\ job_status' = LookupRecord(job_status, ojob[o])
    /\ opc' = [opc EXCEPT ![o] = "listening"]
    /\ UNCHANGED <<briefVars, nodeVars, mongodb, pc, acc, nSnap, exc,
                   LATEST_REPORT,
                   durableJobs, durableReports, published, ojob, atConnect>>

\* receive_text raises WebSocketDisconnect (inner handler) or anything else
\* (outer handler): either way manager.disconnect runs and the endpoint ends.
WS_Disconnect(o) ==
    /\ opc[o] = "listening"
    /\ conns' = Disconnect(o, ojob[o])
    /\ opc' = [opc EXCEPT ![o] = "closed"]
    /\ UNCHANGED <<briefVars, nodeVars, mongodb, pc, acc, nSnap, exc,
                   job_status,
                   LATEST_REPORT,
                   durableJobs, durableReports, published, ojob, ofirst,
                   faulted, atConnect>>

\* GET /research/{job_id}
GetResearch(j) ==
    IF ~mongodb THEN [code |-> 501, status |-> None]
    ELSE IF ~durableJobs[j].present THEN [code |-> 404, status |-> None]
    ELSE [code |-> 200, status |-> durableJobs[j].status]

\* qa_stream's `if not LATEST_REPORT or not LATEST_REPORT.get("report")`.
QaNotReady == LATEST_REPORT = NoResult \/ ~Truthy(LATEST_REPORT.report)

NotFound == [code |-> 404, report |-> None]
Found(report) == [code |-> 200, report |-> report]

\* The in-memory branch of get_research_report.
ReportInMemory(j) ==
    IF InJobStatus(j) /\ Truthy(job_status[j].report)
    THEN Found(job_status[j].report)
    ELSE NotFound

\* get_research_report as it must not be: the adapter is never asked.
GetResearchReportInMemory(j) == ReportInMemory(j)

\* GET /research/{job_id}/report
GetResearchReport(j) ==
    IF ~mongodb THEN ReportInMemory(j)
    ELSE IF Truthy(durableReports[j]) THEN Found(durableReports[j])
    ELSE NotFound

\* What one call of get_research_report does to the program's state: with
\* no adapter it looks the id up in job_status, with one it asks the adapter.
GET_Report(j) ==
    /\ job_status' = IF mongodb THEN job_status
                                ELSE LookupRecord(job_status, j)
    /\ UNCHANGED <<briefVars, nodeVars, mongodb, pc, acc, nSnap, exc,
                   LATEST_REPORT, durableJobs, durableReports, published,
                   conns, opc, ojob, ofirst, faulted, atConnect>>

\* ------------------------------------------ Part II: create_briefings

\* The briefing categories of the `categories` mapping.
Categories == {"financial", "news", "industry", "company", "auditor"}
\* state['curated_<field>']: the key is missing, holds an empty map, or
\* holds documents.
CuratedInputs == {"missing", "empty", "docs"}
\* asyncio.Semaphore(2)
BriefingConcurrency == 2

\* A scan that tests for the key instead of for documents.
NeedsBriefingIfPresent(c) == curated[c] # "missing"
\* `if curated_data:` with curated_data = state.get(curated_key, {})
NeedsBriefing(c) == curated[c] = "docs"

\* A fan-out that does not wait for a permit.
CanAcquireAlways == TRUE
\* A task may enter `async with briefing_semaphore` when a permit is free.
CanAcquire == sem > 0

\* What generate_category_briefing returns from its try block: the stripped
\* completion, or '' for an empty completion or a caught exception.
BriefingContents == {"", "briefing-text"}

\* `briefings = {}`
NoTexts == [c \in Categories |-> Absent]
\* `briefings = {category: content}`: the new entry replaces the dict.
AddBriefingReplacing(bs, c, content) ==
    IF content # "" THEN [NoTexts EXCEPT ![c] = content] ELSE bs
\* `if result['content']: briefings[task['category']] = result['content']`
AddBriefing(bs, c, content) ==
    IF content # "" THEN [bs EXCEPT ![c] = content] ELSE bs

\* A process_briefing task is inside generate_category_briefing.
InFlight(c) == tpc[c] \in {"start", "llm"}
\* A process_briefing task has ended, by returning or by raising.
Ended(c) == tpc[c] \in {"done", "raised"}

\* A scan that leaves the key of a category without documents alone.
ScanBriefingSkipped(c) == briefKey[c]
\* The else branch of the scan: `state[briefing_key] = ""`.
ScanBriefing(c) == IF NeedsBriefing(c) THEN briefKey[c] ELSE ""

\* create_briefings up to the gather: the scan of the five categories,
\* which gives every category without curated documents the empty briefing
\* and a task record to every other one; with no task record the function
\* stores the (empty) briefings map and returns.
CB_Scan ==
    /\ bpc = "start"
    /\ briefKey' = [c \in Categories |-> ScanBriefing(c)]
    /\ tpc' = [c \in Categories |->
                  IF NeedsBriefing(c) THEN "waiting" ELSE "none"]
    /\ IF \E c \in Categories : NeedsBriefing(c)
       THEN /\ sem' = BriefingConcurrency
            /\ bpc' = "gather"
            /\ UNCHANGED stateBriefings
       ELSE /\ stateBriefings' = [assigned |-> TRUE, map |-> briefings]
            /\ bpc' = "returned"
            /\ UNCHANGED sem
    /\ UNCHANGED <<appVars, nodeVars, curated, synth, briefings, calls>>

\* process_briefing enters the semaphore and calls
\* generate_category_briefing, which runs up to the briefing_start event.
PB_Acquire(c) ==
    /\ tpc[c] = "waiting"
    /\ CanAcquire
    /\ sem' = sem - 1
    /\ tpc' = [tpc EXCEPT ![c] = "start"]
    /\ calls' = [calls EXCEPT ![c] = @ + 1]
    /\ UNCHANGED <<appVars, nodeVars, curated, synth, bpc, briefKey, briefings,
                   stateBriefings>>

\* generate_category_briefing between the briefing_start event and the
\* completion request: the documents are normalised, ranked by
\* float(overall_score) and cut to the prompt.  This part is outside the
\* try block: a malformed score or body raises out of the call, out of
\* process_briefing, and the semaphore is released on the way.
PB_Rank(c) ==
    /\ tpc[c] = "start"
    /\ \/ /\ tpc' = [tpc EXCEPT ![c] = "llm"]
          /\ UNCHANGED sem
       \/ /\ tpc' = [tpc EXCEPT ![c] = "raised"]
          /\ sem' = sem + 1
    /\ UNCHANGED <<appVars, nodeVars, curated, synth, bpc, briefKey, briefings,
                   stateBriefings,
                   calls>>

\* The completion request returns (or fails and is caught); the task
\* writes its briefing key, releases the semaphore and returns.
PB_Return(c) ==
    /\ tpc[c] = "llm"
    /\ LET content == synth[c]
       IN  /\ briefKey' = [briefKey EXCEPT ![c] = content]
           /\ briefings' = AddBriefing(briefings, c, content)
    /\ sem' = sem + 1
    /\ tpc' = [tpc EXCEPT ![c] = "done"]
    /\ UNCHANGED <<appVars, nodeVars, curated, synth, bpc, stateBriefings,
                   calls>>

\* asyncio.gather without return_exceptions: the first exception of a task
\* is raised in create_briefings at once; the other tasks are not cancelled
\* and go on running.
CB_GatherRaises ==
    /\ bpc = "gather"
    /\ \E c \in Categories : tpc[c] = "raised"
    /\ bpc' = "raised"
    /\ UNCHANGED <<appVars, nodeVars, curated, synth, tpc, sem, briefKey,
                   briefings,
                   stateBriefings, calls>>

\* Every task has returned: state['briefings'] is stored and the state
\* returned.
CB_Return ==
    /\ bpc = "gather"
    /\ \A c \in Categories : tpc[c] \in {"none", "done"}
    /\ stateBriefings' = [assigned |-> TRUE, map |-> briefings]
    /\ bpc' = "returned"
    /\ UNCHANGED <<appVars, nodeVars, curated, synth, tpc, sem, briefKey,
                   briefings,
                   calls>>

\* ------------------------- Part III: generate_category_briefing's documents

\* `self.max_doc_length`, and what the prompt loop adds and compares with.
max_doc_length == 8000
AggregateCap == 120000
TruncationMarkerLen == 23
TitleLabelLen == 7
ContentLabelLen == 11

\* Longest document list handed to one call.
MaxDocs == 3

\* doc['evaluation']['overall_score'] as the curator left it: a numeral, no
\* score at all, or text that is no numeral.
Scores == {"0.5", "0.9", "missing", "n/a"}
Malformed(s) == s = "n/a"
\* float(x[1].get('evaluation', {}).get('overall_score', '0')), in tenths.
Float(s) == CASE s = "0.9" -> 9 [] s = "0.5" -> 5 [] s = "missing" -> 0

\* <<len(title), len(content)>> of a document.
DocShapes == {<<10, 0>>, <<10, 8001>>, <<59982, 0>>, <<59982, 8001>>}
Documents == [score : Scores, shape : DocShapes]
DocLists == UNION {[1..n -> Documents] : n \in 0..MaxDocs}

\* The (url, doc) tuples in the order of the dict or list; the position stands
\* for the url.
Items(ds) == [i \in 1..Len(ds) |-> [id |-> i, doc |-> ds[i]]]
Key(item) == Float(item.doc.score)

\* sorted(items, key=..., reverse=True): one item finds its place among the
\* items ranked so far, behind every item whose key is as large as its own.
InsertRankedBeforeTies(ranked, x) ==
    LET n == Cardinality({i \in 1..Len(ranked) : Key(ranked[i]) > Key(x)})
    IN  SubSeq(ranked, 1, n) \o <<x>> \o SubSeq(ranked, n + 1, Len(ranked))
InsertRanked(ranked, x) ==
    LET n == Cardinality({i \in 1..Len(ranked) : Key(ranked[i]) >= Key(x)})
    IN  SubSeq(ranked, 1, n) \o <<x>> \o SubSeq(ranked, n + 1, Len(ranked))

RECURSIVE SortedFrom(_, _)
SortedFrom(items, ranked) ==
    IF items = <<>> THEN ranked
    ELSE SortedFrom(Tail(items), InsertRanked(ranked, Head(items)))
Sorted(items) == SortedFrom(items, <<>>)

\* len(doc_entry): the content is cut to max_doc_length and marked, the title
\* is taken whole.
ContentLen(n) ==
    IF n > max_doc_length THEN max_doc_length + TruncationMarkerLen ELSE n
EntryLen(doc) ==
    TitleLabelLen + doc.shape[1] + ContentLabelLen + ContentLen(doc.shape[2])
DocEntry(item) == [id |-> item.id, len |-> EntryLen(item.doc)]

\* The loop over sorted_items: an entry is appended while the running total
\* stays under the cap; the first entry that does not fit ends the loop.
RECURSIVE AppendEntries(_, _, _)
SkipEntry(rest, texts, total) == AppendEntries(Tail(rest), texts, total)
StopAtEntry(rest, texts, total) == texts
AppendEntries(rest, texts, total) ==
    IF rest = <<>> THEN texts
    ELSE LET e == DocEntry(Head(rest))
         IN  IF total + e.len < AggregateCap
             THEN AppendEntries(Tail(rest), Append(texts, e), total + e.len)
             ELSE StopAtEntry(rest, texts, total)
DocTexts(ranked) == AppendEntries(ranked, <<>>, 0)

\* What the completion call can do: answer with text, answer with nothing but
\* blanks, or raise.
LlmOutcomes == {"text", "blank", "raises"}
\* The 'content' of the returned dict.
ReturnedContent(out) == IF out = "text" THEN "briefing-text" ELSE ""

\* Normalising and ranking, which run before the try block: float() raises on
\* a score that is no numeral and the call is left by that exception.
GCB_Rank ==
    /\ gpc = "start"
    /\ IF \E i \in 1..Len(docs) : Malformed(docs[i].score)
       THEN /\ gpc' = "raised"
            /\ UNCHANGED sorted_items
       ELSE /\ sorted_items' = Sorted(Items(docs))
            /\ gpc' = "ranked"
    /\ UNCHANGED <<appVars, briefVars, audVars, docs, doc_texts, gcontent>>

\* The prompt loop.
GCB_Prompt ==
    /\ gpc = "ranked"
    /\ doc_texts' = DocTexts(sorted_items)
    /\ gpc' = "llm"
    /\ UNCHANGED <<appVars, briefVars, audVars, docs, sorted_items, gcontent>>

\* The try block: the completion call, the empty-answer return, the normal
\* return and the handler's return.
GCB_Respond ==
    /\ gpc = "llm"
    /\ \E out \in LlmOutcomes : gcontent' = ReturnedContent(out)
    /\ gpc' = "returned"
    /\ UNCHANGED <<appVars, briefVars, audVars, docs, sorted_items, doc_texts>>

\* --------------------------- Part IV: OnlineEcommerceAuditor.analyze

\* Longest list generate_queries returns.
MaxQueries == 2
QueryTexts == {"q1", "q2"}
QueryLists == UNION {[1..n -> QueryTexts] : n \in 0..MaxQueries}

\* state['company_url'] and one more address; a search can return either.
CompanyUrl == "company-website"
Urls == {CompanyUrl, "u1"}

\* The entry seeded from state['site_scrape'].
SiteScrapeDoc ==
    [query |-> "E-commerce audit info", source |-> "site_scrape", search |-> 0]
\* The document the k-th search returned, after `doc['query'] = query`.
SearchDoc(q, k) == [query |-> q, source |-> "search", search |-> k]

\* No entry under a url; the empty map; state without 'auditor_data'.
NoDoc == [query |-> None, source |-> "absent", search |-> 0]
NoData == [u \in Urls |-> NoDoc]
NotWritten == [written |-> FALSE, data |-> NoData]

\* `auditor_data[url] = doc` as it must not be: the first document stays.
StoreDocumentIfNew(data, url, doc) ==
    IF data[url] = NoDoc THEN [data EXCEPT ![url] = doc] ELSE data
\* `auditor_data[url] = doc`
StoreDocument(data, url, doc) == [data EXCEPT ![url] = doc]

\* `for url, doc in documents.items()` over the urls of one search result.
RECURSIVE StoreDocuments(_, _, _, _)
StoreDocuments(data, urls, q, k) ==
    IF urls = {} THEN data
    ELSE LET u == CHOOSE x \in urls : TRUE
         IN  StoreDocuments(StoreDocument(data, u, SearchDoc(q, k)),
                            urls \ {u}, q, k)

AuditEvent(s, m) == [status |-> s, message |-> m]
\* send_status_update without the test for a broadcaster and a job id.
EmitUnconditional(evs, e) == Append(evs, e)
\* send_status_update under `if websocket_manager and job_id:`.
Emit(evs, e) == IF has_ws THEN Append(evs, e) ELSE evs

\* An except block that re-raises without telling the observers.
A_HandlerSilent(msg) ==
    /\ aevents' = aevents
    /\ aexc' = msg
    /\ apc' = "raised"

\* The except block: the "error" event, then `raise`.
A_Handler(msg) ==
    /\ aevents' =
          Emit(aevents, AuditEvent("error", "E-commerce audit failed: " \o msg))
    /\ aexc' = msg
    /\ apc' = "raised"

\* generate_queries, the subqueries trace entry and the first event.
A_Generate ==
    /\ apc = "start"
    /\ \/ \E qs \in QueryLists :
             /\ queries' = qs
             /\ messages' = Append(messages, "subqueries")
             /\ aevents' = Emit(aevents, AuditEvent("processing",
                                   "E-commerce audit queries generated"))
             /\ apc' = "seed"
             /\ UNCHANGED aexc
       \/ /\ A_Handler("generate_queries failed")
          /\ UNCHANGED <<queries, messages>>
    /\ UNCHANGED <<appVars, briefVars, genVars, site_scrape, has_ws, searches,
                   auditor_data, state_auditor_data, areturn>>

\* state.get('site_scrape'): no such key, an empty value, or a scrape.
SiteScrapes == {"missing", "empty", "scraped"}
\* A seed for every 'site_scrape' key, whatever it holds.
SeedsIfPresent(s) == s # "missing"
\* `if site_scrape := state.get('site_scrape'):` the value is truthy.
Seeds(s) == s = "scraped"

\* `auditor_data = {}` and the seed from the site scrape.
A_Seed ==
    /\ apc = "seed"
    /\ auditor_data' = IF Seeds(site_scrape)
                       THEN StoreDocument(NoData, CompanyUrl, SiteScrapeDoc)
                       ELSE NoData
    /\ apc' = "search"
    /\ UNCHANGED <<appVars, briefVars, genVars, site_scrape, has_ws, queries,
                   searches, state_auditor_data, messages, aevents, areturn,
                   aexc>>

\* One turn of `for query in queries`: search_documents for the next query
\* and the merge of what it returned, or its exception.
A_Search ==
    /\ apc = "search"
    /\ Len(searches) < Len(queries)
    /\ LET k == Len(searches) + 1
           q == queries[k]
       IN  \/ \E urls \in SUBSET Urls :
                 /\ searches' = Append(searches, [query |-> q, urls |-> urls])
                 /\ auditor_data' = StoreDocuments(auditor_data, urls, q, k)
                 /\ UNCHANGED <<aevents, aexc, apc>>
           \/ /\ A_Handler("search_documents failed")
              /\ UNCHANGED <<searches, auditor_data>>
    /\ UNCHANGED <<appVars, briefVars, genVars, site_scrape, has_ws, queries,
                   state_auditor_data, messages, areturn>>

\* After the loop: the two completion events, the completion trace entry,
\* state['auditor_data'] and the returned dict.
A_Complete ==
    /\ apc = "search"
    /\ Len(searches) = Len(queries)
    /\ aevents' = Emit(Emit(aevents,
                            AuditEvent("processing", "Used Tavily Search")),
                       AuditEvent("processing", "completion_msg"))
    /\ messages' = Append(messages, "completion_msg")
    /\ state_auditor_data' = [written |-> TRUE, data |-> auditor_data]
    /\ areturn' = [key |-> "auditor_data", data |-> auditor_data,
                   queries |-> queries]
    /\ apc' = "returned"
    /\ UNCHANGED <<appVars, briefVars, genVars, site_scrape, has_ws, queries,
                   searches, auditor_data, aexc>>

\* The exception analyze re-raised leaves graph.run inside process_research
\* of the job whose pipeline was at this stage, and lands in its handler.
A_Propagates(j) ==
    /\ apc = "raised"
    /\ pc[j] = "running"
    /\ \E F \in SUBSET conns[j] : Handler(j, aexc, F)
    /\ UNCHANGED <<briefVars, nodeVars, mongodb, acc, nSnap, job_status,
                   LATEST_REPORT, durableJobs, durableReports, opc, ojob,
                   atConnect>>

\* ---------------------------------------------------------- specifications

AppInit ==
    /\ mongodb \in BOOLEAN
    /\ pc = [j \in Jobs |-> IF j \in Submitted THEN "unsubmitted" ELSE "unused"]
    /\ acc = [j \in Jobs |-> EmptyState]
    /\ nSnap = [j \in Jobs |-> 0]
    /\ exc = [j \in Jobs |-> None]
    /\ job_status = [j \in Jobs |-> DefaultJob]
    /\ LATEST_REPORT = NoResult
    /\ durableJobs = [j \in Jobs |-> NoDurable]
    /\ durableReports = [j \in Jobs |-> None]
    /\ published = [j \in Jobs |-> NoEvent]
    /\ conns = [j \in Jobs |-> {}]
    /\ opc = [o \in Observers |-> "idle"]
    /\ ojob = [o \in Observers |-> None]
    /\ ofirst = [o \in Observers |-> NoEvent]
    /\ faulted = {}
    /\ atConnect = [o \in Observers |-> NothingOnRecord]

\* state['briefings'] before create_briefings has stored it.
NoBriefings == [assigned |-> FALSE, map |-> NoTexts]

\* Part II at rest: create_briefings is not running.
BriefIdle ==
    /\ curated = [c \in Categories |-> "missing"]
    /\ synth = [c \in Categories |-> ""]
    /\ bpc = "idle"
    /\ tpc = [c \in Categories |-> "none"]
    /\ sem = 0
    /\ briefKey = [c \in Categories |-> Absent]
    /\ briefings = NoTexts
    /\ stateBriefings = NoBriefings
    /\ calls = [c \in Categories |-> 0]

\* create_briefings is entered with any curated input; what the synthesis of
\* a category with documents will yield, text or nothing, is fixed with it.
BriefInit ==
    /\ curated \in [Categories -> CuratedInputs]
    /\ synth \in [Categories -> BriefingContents]
    /\ \A c \in Categories : curated[c] # "docs" => synth[c] = ""
    /\ bpc = "start"
    /\ tpc = [c \in Categories |-> "none"]
    /\ sem = 0
    /\ briefKey = [c \in Categories |-> Absent]
    /\ briefings = NoTexts
    /\ stateBriefings = NoBriefings
    /\ calls = [c \in Categories |-> 0]

\* Part III at rest: generate_category_briefing is not running.
GenIdle ==
    /\ docs = <<>>
    /\ gpc = "idle"
    /\ sorted_items = <<>>
    /\ doc_texts = <<>>
    /\ gcontent = None

\* generate_category_briefing is entered with any list of documents.
GenInit ==
    /\ docs \in DocLists
    /\ gpc = "start"
    /\ sorted_items = <<>>
    /\ doc_texts = <<>>
    /\ gcontent = None

\* What analyze has not produced yet.
NoReturn == [key |-> None, data |-> NoData, queries |-> <<>>]

AudBlank ==
    /\ queries = <<>>
    /\ searches = <<>>
    /\ auditor_data = NoData
    /\ state_auditor_data = NotWritten
    /\ messages = <<>>
    /\ aevents = <<>>
    /\ areturn = NoReturn
    /\ aexc = None

\* Part IV at rest: analyze is not running.
AudIdle ==
    /\ site_scrape = "missing"
    /\ has_ws = FALSE
    /\ apc = "idle"
    /\ AudBlank

\* analyze is entered with or without a site scrape, with or without a
\* broadcaster and job id.
AudInit ==
    /\ site_scrape \in SiteScrapes
    /\ has_ws \in BOOLEAN
    /\ apc = "start"
    /\ AudBlank

Init == AppInit /\ BriefIdle /\ GenIdle /\ AudIdle

Next ==
    \/ \E j \in Jobs : Research(j)
    \/ \E j \in Jobs : PR_Start(j)
    \/ \E j \in Jobs : PR_Processing(j)
    \/ \E j \in Jobs : PR_Graph(j)
    \/ \E j \in Jobs : PR_Snapshot(j)
    \/ \E j \in Jobs : PR_Finish(j)
    \/ \E j \in Jobs : PR_HandlerDb(j)
    \/ \E o \in Observers : \E j \in Jobs : WS_Connect(o, j)
    \/ \E o \in Observers : WS_Replay(o)
    \/ \E o \in Observers : WS_Disconnect(o)
    \/ \E j \in Jobs : GET_Report(j)

Spec == Init /\ [][Next]_vars

\* Part I at rest, Part II running: one call of create_briefings.
BriefingInit ==
    AppInit /\ mongodb = FALSE /\ BriefInit /\ GenIdle /\ AudIdle

BriefingNext ==
    \/ CB_Scan
    \/ \E c \in Categories : PB_Acquire(c)
    \/ \E c \in Categories : PB_Rank(c)
    \/ \E c \in Categories : PB_Return(c)
    \/ CB_GatherRaises
    \/ CB_Return

BriefingSpec == BriefingInit /\ [][BriefingNext]_vars

\* Parts I and II at rest, Part III running: one call of
\* generate_category_briefing.
GenerateInit ==
    AppInit /\ mongodb = FALSE /\ BriefIdle /\ GenInit /\ AudIdle

GenerateNext ==
    \/ GCB_Rank
    \/ GCB_Prompt
    \/ GCB_Respond

GenerateSpec == GenerateInit /\ [][GenerateNext]_vars

\* Parts I to III at rest, Part IV running: one call of analyze.
\* Part I while the pipeline of each submitted job is running, no adapter
\* configured and no observer connected: "processing" has been published
\* and no snapshot has been folded yet.
AppAtStage ==
    /\ mongodb = FALSE
    /\ pc = [j \in Jobs |-> IF j \in Submitted THEN "running" ELSE "unused"]
    /\ acc = [j \in Jobs |-> EmptyState]
    /\ nSnap = [j \in Jobs |-> 0]
    /\ exc = [j \in Jobs |-> None]
    /\ job_status = [j \in Jobs |-> DefaultJob]
    /\ LATEST_REPORT = NoResult
    /\ durableJobs = [j \in Jobs |-> NoDurable]
    /\ durableReports = [j \in Jobs |-> None]
    /\ published =
          [j \in Jobs |-> IF j \in Submitted THEN ProcessingEvent ELSE NoEvent]
    /\ conns = [j \in Jobs |-> {}]
    /\ opc = [o \in Observers |-> "idle"]
    /\ ojob = [o \in Observers |-> None]
    /\ ofirst = [o \in Observers |-> NoEvent]
    /\ faulted = {}
    /\ atConnect = [o \in Observers |-> NothingOnRecord]

AuditorInit == AppAtStage /\ BriefIdle /\ GenIdle /\ AudInit

AuditorNext ==
    \/ A_Generate
    \/ A_Seed
    \/ A_Search
    \/ A_Complete
    \/ \E j \in Jobs : A_Propagates(j)

AuditorSpec == AuditorInit /\ [][AuditorNext]_vars

\* ----------------------------------------------------- Part I: properties

\* The task of job j has ended: returned, or left by an uncaught exception.
TaskEnded(j) == pc[j] \in {"done", "crashed"}

\* The terminal statuses a job currently has on record, over the three places
\* that record one: the in-memory registry, the durable job record and the
\* last event process_research published.
Held(j) ==
    ({job_status[j].status} \cap (IF InJobStatus(j) THEN Terminal ELSE {}))
    \cup ({durableJobs[j].status} \cap Terminal)
    \cup ({published[j].status} \cap Terminal)

\* C1 (as claimed): once a place records completed or failed for a job, no
\* later write or broadcast gives the job the other terminal status; so the
\* places never hold completed and failed for the same job.
C1_TerminalStatusNeverChanges ==
    \A j \in Jobs : Cardinality(Held(j)) <= 1

\* A terminal status is recorded for the job in its job record.
RecordedTerminal(j) ==
    \/ InJobStatus(j) /\ job_status[j].status \in Terminal
    \/ durableJobs[j].present /\ durableJobs[j].status \in Terminal

\* C2 (as claimed): every submitted job ends with a terminal status recorded
\* for it; stated on the finished task, after which nothing writes the record.
C2_EndedTaskHasRecordedTerminalStatus ==
    \A j \in Jobs : TaskEnded(j) => RecordedTerminal(j)

\* The snapshot sequence of job j ended without an exception: the task got to
\* the report lookup (any exception caught afterwards is a persistence one).
SequenceEnded(j) ==
    /\ pc[j] \in {"handler_db", "done", "crashed"}
    /\ exc[j] \in {None, "update_job failed", "store_report failed"}

\* C3 (as claimed): after a snapshot sequence that ended without exception the
\* job ends completed iff the accumulated state holds report text, and failed
\* with "No report found" or the propagated state error otherwise.
C3_CompletedIffReport ==
    \A j \in Jobs : SequenceEnded(j) =>
        IF Truthy(ReportContent(acc[j]))
        THEN published[j].status = "completed"
        ELSE /\ published[j].status = "failed"
             /\ published[j].error = ErrorMessage(acc[j])

\* The handler of job j has run.
Caught(j) == exc[j] # None

BeforePipeline(j) == pc[j] \in {"spawned", "sleeping", "graph"}

\* C5 (as claimed, for a deployment with the status query available): from
\* the return of research() until the pipeline runs, a status query finds the
\* record and sees pending or processing.
C5_RecordExistsOnReturn ==
    \A j \in Jobs : (mongodb /\ BeforePipeline(j)) =>
        /\ GetResearch(j).code = 200
        /\ GetResearch(j).status \in {"pending", "processing"}

\* C6: an observer that registered for a job already on record as completed
\* gets no first event other than a completed one, has been sent it once the
\* endpoint is past the re-send (unless its delivery faulted and removed it),
\* and no step of the endpoint starts a task or touches a job record.
C6_CompletedReplayedOnConnect ==
    [][/\ \A o \in Observers :
             (atConnect'[o].known /\ atConnect'[o].status = "completed") =>
                /\ ofirst'[o].status \in {"none", "completed"}
                /\ (opc'[o] = "listening" /\ o \in conns'[ojob'[o]])
                      => ofirst'[o].status = "completed"
       /\ (opc' # opc) =>
             UNCHANGED <<pc, acc, nSnap, job_status, LATEST_REPORT,
                         durableJobs, durableReports>>]_vars

\* C6 witness: an observer registered after completion and its first event
\* is the re-sent completed status.
C6_Witness ==
    \E o \in Observers :
        /\ atConnect[o].known /\ atConnect[o].status = "completed"
        /\ opc[o] = "listening"
        /\ ofirst[o].status = "completed"
        /\ ofirst[o].message = "Connected to status stream"

\* C7 (as claimed): an observer that registers after an event was published
\* for its job has, once the endpoint is past the re-send and while it stays
\* registered, been sent an event carrying the job's last known status.
C7_LastStatusReplayedOnConnect ==
    \A o \in Observers :
        (/\ opc[o] = "listening"
         /\ o \in conns[ojob[o]]
         /\ atConnect[o].published # "none") => ofirst[o] # NoEvent

\* ---------------------------------------------------- Part II: properties

\* C8: at most BriefingConcurrency generate_category_briefing calls are in
\* flight at any time, whatever the curated input and the interleaving.
C8_AtMostTwoInFlight ==
    Cardinality({c \in Categories : InFlight(c)}) <= BriefingConcurrency

\* C8 witness: all five categories have documents, two calls are in flight
\* and a third task waits for a permit.
C8_Witness ==
    /\ \A c \in Categories : curated[c] = "docs"
    /\ Cardinality({c \in Categories : InFlight(c)}) = BriefingConcurrency
    /\ \E c \in Categories : tpc[c] = "waiting"

\* The scan of the categories is over.
Scanned == bpc \in {"gather", "returned", "raised"}
\* Calls issued so far, over all categories.
RECURSIVE SumCalls(_)
SumCalls(S) == IF S = {} THEN 0
               ELSE LET c == CHOOSE x \in S : TRUE
                    IN calls[c] + SumCalls(S \ {c})
NonEmptyCategories == {c \in Categories : curated[c] = "docs"}

\* C9: a call is issued only for a category with non-empty curated input and
\* at most once; a category with empty or missing input has the empty
\* briefing from the scan on and never gets a task or a permit; and by the
\* time create_briefings returns, exactly one call per non-empty category
\* has been issued (N calls for N non-empty categories).
C9_CallIffCuratedNonEmpty ==
    /\ \A c \in Categories :
          /\ calls[c] <= 1
          /\ calls[c] = 1 => curated[c] = "docs"
          /\ (Scanned /\ curated[c] # "docs") =>
                /\ briefKey[c] = ""
                /\ tpc[c] = "none"
                /\ calls[c] = 0
    /\ bpc = "returned" =>
          SumCalls(Categories) = Cardinality(NonEmptyCategories)

\* C9 witness: two of the five categories have documents, create_briefings
\* has returned and exactly two calls were issued.
C9_Witness ==
    /\ Cardinality(NonEmptyCategories) = 2
    /\ \E c \in Categories : curated[c] = "empty"
    /\ \E c \in Categories : curated[c] = "missing"
    /\ bpc = "returned"
    /\ SumCalls(Categories) = 2

\* C10 (as claimed): a task's failure does not abort the others, and
\* create_briefings is left only after every task it created has finished.
C10_ReturnsAfterAllTasksFinished ==
    bpc \in {"returned", "raised"} =>
        \A c \in Categories : curated[c] = "docs" => Ended(c)

\* --------------------------------------------------- Part III: properties

\* C11: generate_category_briefing never raises: a call that has ended has
\* returned its 'content', empty after any failure.
C11_GenerateNeverRaises == gpc # "raised"

\* The ranking has run.
Ranked == gpc \in {"ranked", "llm", "returned"}

\* C15: sorted_items holds every item once, by score from high to low, and
\* items of equal score keep the order they came in.
C15_RankedByScoreStable ==
    Ranked =>
        /\ Len(sorted_items) = Len(docs)
        /\ \A i \in 1..Len(docs) :
              \E k \in 1..Len(sorted_items) : sorted_items[k] = Items(docs)[i]
        /\ \A k \in 1..(Len(sorted_items) - 1) :
              \/ Key(sorted_items[k]) > Key(sorted_items[k + 1])
              \/ /\ Key(sorted_items[k]) = Key(sorted_items[k + 1])
                 /\ sorted_items[k].id < sorted_items[k + 1].id

\* Two documents tie at the top score behind a lower-scored one.
C15_Witness ==
    /\ gpc = "ranked"
    /\ Len(docs) = 3
    /\ docs[1].score = "0.5"
    /\ docs[2].score = "0.9"
    /\ docs[3].score = "0.9"
    /\ sorted_items[1].id = 2

RECURSIVE TotalLength(_)
TotalLength(texts) ==
    IF texts = <<>> THEN 0 ELSE Head(texts).len + TotalLength(Tail(texts))

\* The prompt loop has run.
Prompted == gpc \in {"llm", "returned"}

\* C16: doc_texts is a prefix of the ranking, each entry whole; it ends at the
\* first entry that would bring the total to the cap, and the total stays
\* under the cap.
C16_PromptIsPrefixUnderCap ==
    Prompted =>
        LET n == Len(doc_texts)
        IN  /\ n <= Len(sorted_items)
            /\ \A k \in 1..n : doc_texts[k] = DocEntry(sorted_items[k])
            /\ TotalLength(doc_texts) < AggregateCap
            /\ n < Len(sorted_items) =>
                  TotalLength(doc_texts) + EntryLen(sorted_items[n + 1].doc)
                     >= AggregateCap

\* A document was dropped although a lower-ranked one would still have fitted.
C16_Witness ==
    /\ gpc = "llm"
    /\ Len(doc_texts) > 0
    /\ Len(doc_texts) + 1 < Len(sorted_items)
    /\ TotalLength(doc_texts) + EntryLen(sorted_items[Len(sorted_items)].doc)
          < AggregateCap

\* ------------------------------------------ Part I: broadcaster properties

\* The endpoint of observer o ends in this step, through one of its two
\* handlers, both of which call manager.disconnect.
EndpointDisconnects(o) == opc[o] # "closed" /\ opc'[o] = "closed"

\* C12: manager.disconnect for an observer that is no longer (or was never)
\* registered changes nothing and lets the endpoint end; in every case the
\* table afterwards is the table without that observer.
C12_DisconnectIdempotent ==
    [][\A o \in Observers :
          EndpointDisconnects(o) =>
              /\ \A j \in Jobs : o \notin conns'[j]
              /\ o \notin conns[ojob'[o]] => conns' = conns
              /\ \A j \in Jobs : conns'[j] \cup {o} = conns[j] \cup {o}]_vars

\* The observer had been removed after a delivery fault, another observer was
\* registered, and the endpoint then disconnected it a second time.
C12_Witness ==
    \E o \in faulted : \E p \in Observers \ {o} :
        /\ opc[o] = "closed"
        /\ p \in conns[ojob[o]]

\* The observers on which a delivery faults in this step.
FaultingNow == faulted' \ faulted

\* C13: when delivery to an observer faults, that observer is removed, every
\* other observer registered under the job still gets the event, and the
\* publisher goes on as if nothing had happened.
C13_FaultIsolatedPerObserver ==
    [][\A o \in FaultingNow :
          LET j == ojob[o]
          IN  /\ o \notin conns'[j]
              /\ \A p \in conns[j] \ FaultingNow :
                    /\ p \in conns'[j]
                    /\ ofirst'[p] # NoEvent
                    /\ ofirst[p] = NoEvent =>
                          ofirst'[p] \in {published'[j], ReplayEvent(j)}
              /\ pc[j] = "sleeping" => pc'[j] = "graph"
              /\ pc'[j] # pc[j] => published'[j] # NoEvent
              /\ \A p \in Observers :
                    opc[p] = "registered" /\ opc'[p] # opc[p]
                       => opc'[p] = "listening"]_vars

\* Delivery to one observer faulted on its first event while the other
\* observer of the same job got the event and stays registered.
C13_Witness ==
    \E o \in faulted : \E p \in Observers \ faulted :
        /\ ofirst[o] = NoEvent
        /\ p \in conns[ojob[o]]
        /\ ofirst[p] # NoEvent
        /\ ofirst[p] = published[ojob[o]]

\* ---------------------------------------------------- Part IV: properties

\* The searches that returned url u, by their place in the loop.
Returning(u) == {k \in 1..Len(searches) : u \in searches[k].urls}
Last(K) == CHOOSE k \in K : \A m \in K : m <= k

\* C14: the searches made so far are the first queries in generated order,
\* one search per query, and a url that any of them returned has one entry:
\* the document and the 'query' of the last search that returned it.
C14_QueriesInOrderLastWriteWins ==
    /\ Len(searches) <= Len(queries)
    /\ \A k \in 1..Len(searches) : searches[k].query = queries[k]
    /\ apc = "returned" => Len(searches) = Len(queries)
    /\ apc \in {"search", "returned", "raised"} =>
          \A u \in Urls :
              Returning(u) # {} =>
                  auditor_data[u] =
                      SearchDoc(queries[Last(Returning(u))],
                                Last(Returning(u)))

\* Two different queries returned the same url and the run has returned.
C14_Witness ==
    /\ apc = "returned"
    /\ Len(queries) = 2
    /\ queries[1] # queries[2]
    /\ "u1" \in searches[1].urls \cap searches[2].urls
    /\ auditor_data["u1"].query = queries[2]

\* ------------------------------------------ Part I: persistence properties

\* C17: with a persistence adapter, once the task has ended the durable
\* record holds the terminal status that was broadcast, and the report of a
\* completed job is in the durable store.  Stated for the runs in which no
\* call raised, where nothing but the code decides what is mirrored.
C17_DurableMirrorsTerminalStatus ==
    \A j \in Jobs :
        (mongodb /\ TaskEnded(j) /\ exc[j] = None) =>
            /\ durableJobs[j].present
            /\ durableJobs[j].status = published[j].status
            /\ published[j].status = "completed" =>
                  durableReports[j] = published[j].result.report

\* C18: the report of job j is returned exactly when j has completed with a
\* report, and it is that report; an id that was never submitted and a job
\* that is pending, processing or failed get not-found.  The answer comes
\* from the durable store when an adapter is configured.
C18_ReportIffCompleted ==
    \A j \in Jobs :
        LET answer == GetResearchReport(j)
        IN  /\ answer.code = 200 <=> published[j].status = "completed"
            /\ answer.code = 200 =>
                  /\ answer.report = published[j].result.report
                  /\ mongodb => answer.report = durableReports[j]
            /\ answer.code # 200 => answer = NotFound

\* With an adapter configured a job has completed and its report is served,
\* while the id that was never submitted gets not-found.
C18_Witness ==
    /\ mongodb
    /\ published["j1"].status = "completed"
    /\ GetResearchReport("j1").code = 200
    /\ GetResearchReport("j2") = NotFound

\* ------------------------------------- Part I: latest-report properties

\* C19: the latest-report slot is empty, and a question is refused as not
\* ready, until a job has completed; after that it holds the report and
\* company of a completed job, and a job that failed has left it alone.
C19_SlotHoldsLastCompletedReport ==
    /\ (\A j \in Jobs : published[j].status # "completed") => QaNotReady
    /\ ~QaNotReady =>
          \E j \in Jobs :
              /\ published[j].status = "completed"
              /\ LATEST_REPORT = published[j].result

\* ----------------------------------------- Part I: accumulator properties

\* C20 as stated: a key of the accumulated state that holds a populated value
\* holds a populated value after every later snapshot.
C20_PopulatedNeverRegresses ==
    [][\A j \in Jobs : \A k \in StateKeys :
          Truthy(acc[j][k]) => Truthy(acc'[j][k])]_vars

\* C20 amended: a key that is present in the accumulated state is present
\* after every later snapshot, and a snapshot changes no key but its own;
\* the value of its own key is the snapshot's, populated or empty.
C20_KeysNeverRemoved ==
    [][\A j \in Jobs :
          /\ \A k \in StateKeys : acc[j][k] # Absent => acc'[j][k] # Absent
          /\ Cardinality({k \in StateKeys : acc'[j][k] # acc[j][k]}) <= 1
          /\ \A k \in StateKeys :
                acc'[j][k] # acc[j][k] => acc'[j][k] \in KeyValues(k)]_vars

\* Two snapshots with different keys have been folded and both keys are held.
C20_Witness ==
    \E j \in Jobs :
        /\ nSnap[j] = 2
        /\ acc[j]["report"] = ""
        /\ acc[j]["error"] = "stage-error"

\* ------------------------------------------- Part I: event properties

\* C21: a completed event that an observer has received, broadcast at
\* completion or re-sent on connect, carries the report text and the company
\* name in its result.
C21_CompletedEventCarriesResult ==
    \A o \in Observers :
        ofirst[o].status = "completed" =>
            /\ Truthy(ofirst[o].result.report)
            /\ Truthy(ofirst[o].result.company)

\* C22: no lookup creates a job record.  The registry changes only in the
\* step in which a running task records completion; no step of an observer's
\* endpoint and no report retrieval changes it, and an id that was never
\* submitted has no record.
C22_LookupCreatesNoRecord ==
    [][/\ \A j \in Jobs :
             job_status'[j] # job_status[j] =>
                 pc[j] = "running" /\ pc'[j] # "running"
       /\ opc' # opc => job_status' = job_status
       /\ \A j \in Jobs : pc'[j] = "unused" => ~job_status'[j].present]_vars

\* An observer has connected to an id that was never submitted, the endpoint
\* is past its lookup, and neither the registry nor a retrieval knows the id.
C22_Witness ==
    \E o \in Observers :
        /\ opc[o] = "listening"
        /\ pc[ojob[o]] = "unused"
        /\ ~InJobStatus(ojob[o])
        /\ GetResearchReport(ojob[o]) = NotFound

\* The "error" event of the except block for the exception now re-raised.
ErrorEvent(msg) == AuditEvent("error", "E-commerce audit failed: " \o msg)
ErrorEvents(evs) == {i \in 1..Len(evs) : evs[i].status = "error"}

\* C23: an exception of generate_queries or search_documents leaves analyze:
\* with a broadcaster and job id the "error" event with its message is the
\* last event published, nothing is searched afterwards, neither
\* state['auditor_data'] nor a return value is written, and the job whose
\* pipeline the exception leaves is reported failed with that message.
C23_GathererFailureReRaised ==
    [][/\ aexc' # None => apc' = "raised"
       /\ apc' = "raised" =>
             /\ aexc' \in {"generate_queries failed", "search_documents failed"}
             /\ has_ws' =>
                   /\ aevents' # <<>>
                   /\ aevents'[Len(aevents')] = ErrorEvent(aexc')
                   /\ Cardinality(ErrorEvents(aevents')) = 1
             /\ ~has_ws' => aevents' = <<>>
             /\ state_auditor_data' = NotWritten
             /\ areturn' = NoReturn
             /\ aexc' = "generate_queries failed" => searches' = <<>>
             /\ aexc' = "search_documents failed" =>
                   Len(searches') < Len(queries')
       /\ apc = "raised" =>
             /\ UNCHANGED audVars
             /\ \A j \in Jobs :
                   pc'[j] # pc[j] =>
                       /\ pc'[j] = "done"
                       /\ published'[j] = HandlerEvent(aexc)
                       /\ published'[j].status = "failed"]_vars

\* The second of two searches raised with a broadcaster present, and the
\* job has been reported failed.
C23_Witness ==
    /\ apc = "raised"
    /\ has_ws
    /\ aexc = "search_documents failed"
    /\ Len(queries) = 2
    /\ Len(searches) = 1
    /\ pc["j1"] = "done"
    /\ published["j1"].error = "search_documents failed"

QueriesGenerated ==
    AuditEvent("processing", "E-commerce audit queries generated")
CompletionEvents ==
    <<AuditEvent("processing", "Used Tavily Search"),
      AuditEvent("processing", "completion_msg")>>
IsPrefix(s, t) == Len(s) <= Len(t) /\ s = SubSeq(t, 1, Len(s))

\* C24: with a broadcaster and job id, the query-generation event is out
\* before the first search starts and the two completion events come, in the
\* returning step, after the last search; the trace log gets the query list
\* before the completion entry; without broadcaster or job id nothing is
\* published, yet the trace log and the document map are written.
C24_EventsAndTraceInOrder ==
    [][/\ ~has_ws' => aevents' = <<>>
       /\ IsPrefix(messages', <<"subqueries", "completion_msg">>)
       /\ searches' # searches =>
             /\ messages = <<"subqueries">>
             /\ has_ws => aevents = <<QueriesGenerated>>
       /\ (has_ws' /\ apc' \in {"seed", "search"}) =>
             aevents' = <<QueriesGenerated>>
       /\ (aevents' # aevents /\ apc' = "returned") =>
             /\ searches' = searches
             /\ Len(searches) = Len(queries)
             /\ aevents' = aevents \o CompletionEvents
       /\ apc' = "returned" =>
             /\ messages' = <<"subqueries", "completion_msg">>
             /\ state_auditor_data' =
                   [written |-> TRUE, data |-> auditor_data']
             /\ has_ws' => aevents' = <<QueriesGenerated>> \o CompletionEvents
       /\ apc' # "returned" =>
             \A i \in 1..Len(aevents') :
                 aevents'[i].status = "processing" =>
                     aevents'[i] = QueriesGenerated]_vars

\* A run with a broadcaster and job id made two searches and returned.
C24_Witness ==
    /\ apc = "returned"
    /\ has_ws
    /\ Len(searches) = 2
    /\ Len(aevents) = 3

\* Every url that some search returned.
Searched == UNION {searches[k].urls : k \in 1..Len(searches)}

\* C25: on success analyze returns, under 'auditor_data', the map it stored
\* in state['auditor_data']; its urls are the company url, when state held a
\* site scrape, and every url a search returned; the company url holds the
\* site-scrape document unless a search returned that url.
C25_ReturnsSeedAndSearchedUrls ==
    apc = "returned" =>
        /\ areturn.key = "auditor_data"
        /\ state_auditor_data = [written |-> TRUE, data |-> areturn.data]
        /\ {u \in Urls : areturn.data[u] # NoDoc} =
              Searched \cup
                 (IF site_scrape = "scraped" THEN {CompanyUrl} ELSE {})
        /\ (site_scrape = "scraped" /\ CompanyUrl \notin Searched) =>
              areturn.data[CompanyUrl] = SiteScrapeDoc
        /\ CompanyUrl \in Searched =>
              areturn.data[CompanyUrl].source = "search"

\* State held a site scrape, the searches returned only the other url, and
\* the run returned both.
C25_Witness ==
    /\ apc = "returned"
    /\ site_scrape = "scraped"
    /\ Searched = {"u1"}
    /\ areturn.data[CompanyUrl] = SiteScrapeDoc

\* ------------------------------------------- Part II: returned state

\* The briefing keys and the briefings map as the inputs alone fix them.
KeysFromInputs ==
    [c \in Categories |-> IF curated[c] = "docs" THEN synth[c] ELSE ""]
MapFromInputs ==
    [c \in Categories |->
        IF curated[c] = "docs" /\ synth[c] # "" THEN synth[c] ELSE Absent]

\* C26: a fan-out task writes no briefing key and no entry of the briefings
\* map but its own, and what create_briefings returns is fixed by the curated
\* input and the per-category synthesis results, whatever the order in which
\* the tasks ran and finished.
C26_ReturnedStateIndependentOfOrder ==
    [][/\ bpc # "start" =>
             \A c \in Categories :
                 (briefKey'[c] # briefKey[c] \/ briefings'[c] # briefings[c])
                    => tpc[c] = "llm" /\ tpc'[c] = "done"
       /\ bpc' = "returned" =>
             /\ briefKey' = KeysFromInputs
             /\ stateBriefings' =
                   [assigned |-> TRUE, map |-> MapFromInputs]]_vars

\* create_briefings has returned after more tasks than the semaphore admits
\* at once, some of them without a briefing.
C26_Witness ==
    /\ bpc = "returned"
    /\ Cardinality({c \in Categories : curated[c] = "docs"}) >= 4
    /\ \E c, d \in Categories :
          /\ curated[c] = "docs" /\ synth[c] = ""
          /\ curated[d] = "docs" /\ synth[d] # ""

\* C27: when create_briefings has returned, each of the five briefing keys
\* holds a string, state['briefings'] holds exactly the categories whose key
\* is non-empty, each with the text of its key, and a category without
\* documents or without a synthesis result has "" and no entry.
C27_BriefingKeysAndMapOnReturn ==
    bpc = "returned" =>
        /\ stateBriefings.assigned
        /\ \A c \in Categories :
              /\ briefKey[c] \in BriefingContents
              /\ stateBriefings.map[c] # Absent <=> briefKey[c] # ""
              /\ stateBriefings.map[c] # Absent =>
                    stateBriefings.map[c] = briefKey[c]
              /\ (curated[c] # "docs" \/ synth[c] = "") =>
                    briefKey[c] = "" /\ stateBriefings.map[c] = Absent

\* A return with a category without documents, one whose synthesis failed
\* and one with a briefing.
C27_Witness ==
    /\ bpc = "returned"
    /\ \E c, d, e \in Categories :
          /\ curated[c] = "empty" /\ briefKey[c] = ""
          /\ curated[d] = "docs" /\ synth[d] = "" /\ briefKey[d] = ""
          /\ stateBriefings.map[e] = "briefing-text"

\* ------------------------------------------- Part I: order of events

\* Observer o has received the completed event broadcast at completion.
GotCompleted(o) ==
    /\ ojob[o] \in Jobs
    /\ ofirst[o].status = "completed"
    /\ ofirst[o] = published[ojob[o]]

\* C28: the pipeline runs, and snapshots are folded, only once "processing"
\* has been published; after the terminal event no snapshot is folded; and
\* when the completed event is out, the in-memory record is completed with
\* the report and the latest-report slot holds it, so that an observer that
\* has received the event gets the report on retrieval.
C28_EventsOrderedAroundPipeline ==
    [][\A j \in Jobs :
          /\ pc'[j] = "running" => published'[j] = ProcessingEvent
          /\ (acc'[j] # acc[j] \/ nSnap'[j] # nSnap[j]) =>
                pc[j] = "running" /\ published[j] = ProcessingEvent
          /\ published[j].status \in Terminal =>
                /\ acc'[j] = acc[j]
                /\ nSnap'[j] = nSnap[j]
                /\ pc'[j] # "running"
          /\ published'[j].status = "completed" =>
                /\ job_status'[j].present
                /\ job_status'[j].status = "completed"
                /\ job_status'[j].report = published'[j].result.report
                /\ LATEST_REPORT' = published'[j].result
                /\ published'[j].result.report = ReportContent(acc'[j])
          /\ \A o \in Observers :
                (GotCompleted(o)' /\ ojob'[o] = j) =>
                    GetResearchReport(j)' = Found(published'[j].result.report)
      ]_vars

\* An observer registered before completion has received the completed
\* event and the report is served.
C28_Witness ==
    \E o \in Observers :
        /\ GotCompleted(o)
        /\ ofirst[o].message = "Research completed successfully"
        /\ nSnap[ojob[o]] = MaxSnapshots
        /\ GetResearchReport(ojob[o]).code = 200

====
